---- MODULE Spec2Model ----
(***************************************************************************)
(* Checked arithmetic on native integers (include/checked.hpp).            *)
(*                                                                         *)
(* Every operation of the header is a pure function of two operands and    *)
(* three type parameters.  The model draws the type parameters R, T, U and *)
(* the operand values t, u in Init and has one action per operation, which *)
(* applies the operation and stores the checked_result it returns.         *)
(*                                                                         *)
(* Native types are records [signed, size] with size = sizeof in bytes.    *)
(* TLC's integers are 32 bits wide, so the number of bits of a byte,       *)
(* CharBit, is scaled down: every width, limit and promotion keeps the     *)
(* relation it has on the real platform (char < int < intmax_t, intmax_t   *)
(* twice as wide as int), and every C++ expression is evaluated in the     *)
(* type the language evaluates it in (integral promotion, usual arithmetic *)
(* conversions, modular conversion on narrowing).                          *)
(***************************************************************************)
EXTENDS Integers, FiniteSets, Sequences, TLC

VARIABLES R, T, U, t, u, op, pc, result

vars == <<R, T, U, t, u, op, pc, result>>

\* bits per byte (scaled; the widest native type has 8 * CharBit bits)
CharBit == 2

-----------------------------------------------------------------------------
\* Native integer types

SCharT == [signed |-> TRUE, size |-> 1]
UCharT == [signed |-> FALSE, size |-> 1]
ShortT == [signed |-> TRUE, size |-> 2]
UShortT == [signed |-> FALSE, size |-> 2]
IntT == [signed |-> TRUE, size |-> 4]
UIntT == [signed |-> FALSE, size |-> 4]
IntMaxT == [signed |-> TRUE, size |-> 8]
UIntMaxT == [signed |-> FALSE, size |-> 8]

\* every native type of the platform
NativeTypes == {SCharT, UCharT, ShortT, UShortT, IntT, UIntT, IntMaxT, UIntMaxT}

\* the types the operations are instantiated with
Types == {SCharT, UCharT, IntT, UIntT, IntMaxT, UIntMaxT}

Pow2(n) == 2 ^ n

Abs(x) == IF x < 0 THEN -x ELSE x

Bits(X) == X.size * CharBit

\* std::numeric_limits<X>::digits / max() / min()
Digits(X) == IF X.signed THEN Bits(X) - 1 ELSE Bits(X)
Max(X) == Pow2(Digits(X)) - 1
Min(X) == IF X.signed THEN -Pow2(Digits(X)) ELSE 0

InRange(v, X) == Min(X) <= v /\ v <= Max(X)

\* conversion of a value to type X: modulo 2^bits, two's complement
Conv(v, X) ==
    LET m == Pow2(Bits(X))
        w == v % m
    IN IF X.signed /\ w >= m \div 2 THEN w - m ELSE w

\* integral promotion
Promote(X) == IF X.size < IntT.size THEN IntT ELSE X

\* usual arithmetic conversions of two promoted types
Common(A, B) ==
    IF A.signed = B.signed THEN (IF A.size >= B.size THEN A ELSE B)
    ELSE LET S == IF A.signed THEN A ELSE B
             N == IF A.signed THEN B ELSE A
         IN IF N.size >= S.size THEN N ELSE S

\* a typed value of a C++ expression; ub records undefined behaviour met
\* while evaluating it
Val(X, v) == [ty |-> X, v |-> v, ub |-> FALSE]

ArithType(x, y) == Common(Promote(x.ty), Promote(y.ty))

\* built-in comparisons
CLt(x, y) == LET C == ArithType(x, y) IN Conv(x.v, C) < Conv(y.v, C)
CGt(x, y) == LET C == ArithType(x, y) IN Conv(x.v, C) > Conv(y.v, C)
CEq(x, y) == LET C == ArithType(x, y) IN Conv(x.v, C) = Conv(y.v, C)

\* result of an arithmetic expression of type C with exact value e
Arith(C, e, ub) ==
    [ty |-> C, v |-> Conv(e, C), ub |-> ub \/ (C.signed /\ ~InRange(e, C))]

\* built-in + and -
CAdd(x, y) ==
    LET C == ArithType(x, y)
    IN Arith(C, Conv(x.v, C) + Conv(y.v, C), x.ub \/ y.ub)
CSub(x, y) ==
    LET C == ArithType(x, y)
    IN Arith(C, Conv(x.v, C) - Conv(y.v, C), x.ub \/ y.ub)

\* a * b modulo m for 0 <= a, b < m, without leaving the integers of TLC
RECURSIVE MulMod(_, _, _)
MulMod(a, b, m) ==
    IF b = 0 THEN 0
    ELSE LET h == MulMod(a, b \div 2, m)
             d == (2 * h) % m
         IN IF b % 2 = 1 THEN (d + a) % m ELSE d

\* built-in *
CMul(x, y) ==
    LET C == ArithType(x, y)
        a == Conv(x.v, C)
        b == Conv(y.v, C)
        fits == a = 0 \/ b = 0 \/ Abs(a) <= (Max(C) + 1) \div Abs(b)
    IN IF fits THEN Arith(C, a * b, x.ub \/ y.ub)
       ELSE IF C.signed THEN [ty |-> C, v |-> 0, ub |-> TRUE]
       ELSE [ty |-> C, v |-> MulMod(a, b, Pow2(Bits(C))), ub |-> x.ub \/ y.ub]

\* quotient and remainder of truncated division
TruncDiv(a, b) ==
    LET q == Abs(a) \div Abs(b)
    IN IF (a < 0) # (b < 0) THEN -q ELSE q
TruncMod(a, b) == a - b * TruncDiv(a, b)

\* built-in / and %
CDiv(x, y) ==
    LET C == ArithType(x, y)
        a == Conv(x.v, C)
        b == Conv(y.v, C)
    IN IF b = 0 THEN [ty |-> C, v |-> 0, ub |-> TRUE]
       ELSE Arith(C, TruncDiv(a, b), x.ub \/ y.ub)
CMod(x, y) ==
    LET C == ArithType(x, y)
        a == Conv(x.v, C)
        b == Conv(y.v, C)
    IN IF b = 0 THEN [ty |-> C, v |-> 0, ub |-> TRUE]
       ELSE [ty |-> C, v |-> TruncMod(a, b),
             ub |-> x.ub \/ y.ub \/ (C.signed /\ ~InRange(TruncDiv(a, b), C))]

-----------------------------------------------------------------------------
\* checked_result<R>

Ok(v) == [e |-> "no_exception", r |-> v, msg |-> "", ub |-> FALSE]
Err(kind, msg) == [e |-> kind, r |-> 0, msg |-> msg, ub |-> FALSE]

\* checked_result<X>(x) from the value of an expression: converts to X
OkOf(X, x) == [e |-> "no_exception", r |-> Conv(x.v, X), msg |-> "", ub |-> x.ub]

no_exception(cr) == cr.e = "no_exception"

-----------------------------------------------------------------------------
\* cast<X>(v) for v of type S

\* cast without the test for a negative value converted to unsigned
cast_no_negative_test(X, S, v) ==
    IF X.signed THEN
        IF S.signed THEN
            IF CGt(Val(S, v), Val(X, Max(X))) THEN
                Err("range_error", "converted signed value too large")
            ELSE IF CLt(Val(S, v), Val(X, Min(X))) THEN
                Err("range_error", "converted signed value too small")
            ELSE OkOf(X, Val(S, v))
        ELSE
            IF CGt(Val(S, v), Val(X, Max(X))) THEN
                Err("range_error", "converted unsigned value too large")
            ELSE OkOf(X, Val(S, v))
    ELSE
        IF ~S.signed THEN
            IF CGt(Val(S, v), Val(X, Max(X))) THEN
                Err("range_error", "converted unsigned value too large")
            ELSE OkOf(X, Val(S, v))
        ELSE
            IF CGt(Val(S, v), Val(X, Max(X))) THEN
                Err("range_error", "converted signed value too large")
            ELSE OkOf(X, Val(S, v))

cast(X, S, v) ==
    IF X.signed THEN
        IF S.signed THEN
            IF CGt(Val(S, v), Val(X, Max(X))) THEN
                Err("range_error", "converted signed value too large")
            ELSE IF CLt(Val(S, v), Val(X, Min(X))) THEN
                Err("range_error", "converted signed value too small")
            ELSE OkOf(X, Val(S, v))
        ELSE
            IF CGt(Val(S, v), Val(X, Max(X))) THEN
                Err("range_error", "converted unsigned value too large")
            ELSE OkOf(X, Val(S, v))
    ELSE
        IF ~S.signed THEN
            IF CGt(Val(S, v), Val(X, Max(X))) THEN
                Err("range_error", "converted unsigned value too large")
            ELSE OkOf(X, Val(S, v))
        ELSE
            IF CLt(Val(S, v), Val(IntT, 0)) THEN
                Err("range_error", "converted negative value to unsigned")
            ELSE IF CGt(Val(S, v), Val(X, Max(X))) THEN
                Err("range_error", "converted signed value too large")
            ELSE OkOf(X, Val(S, v))

-----------------------------------------------------------------------------
\* safe addition

\* detail::add, result unsigned
detail_add_unsigned(X, a, b) ==
    IF CLt(CSub(Val(X, Max(X)), Val(X, b)), Val(X, a)) THEN
        Err("overflow_error", "addition overflow")
    ELSE OkOf(X, CAdd(Val(X, a), Val(X, b)))

\* detail::add, result signed
detail_add_signed(X, a, b) ==
    IF \/ (CGt(Val(X, b), Val(IntT, 0))
            /\ CGt(Val(X, a), CSub(Val(X, Max(X)), Val(X, b))))
       \/ (CLt(Val(X, b), Val(IntT, 0))
            /\ CLt(Val(X, a), CSub(Val(X, Min(X)), Val(X, b))))
    THEN Err("overflow_error", "addition overflow")
    ELSE OkOf(X, CAdd(Val(X, a), Val(X, b)))

\* detail::add<X>(a, b): the arguments are converted to the parameter type X
detail_add(X, A, a, B, b) ==
    IF X.signed THEN detail_add_signed(X, Conv(a, X), Conv(b, X))
    ELSE detail_add_unsigned(X, Conv(a, X), Conv(b, X))

\* add with the failure of u's cast returned before that of t's cast
add_u_first(X, A, a, B, b) ==
    LET ru == cast(X, B, b)
        rt == cast(X, A, a)
    IN IF ~no_exception(ru) THEN ru
       ELSE IF ~no_exception(rt) THEN rt
       ELSE detail_add(X, A, a, B, b)

add(X, A, a, B, b) ==
    LET ru == cast(X, B, b)
        rt == cast(X, A, a)
    IN IF ~no_exception(rt) THEN rt
       ELSE IF ~no_exception(ru) THEN ru
       ELSE detail_add(X, A, a, B, b)

-----------------------------------------------------------------------------
\* safe subtraction

\* detail::subtract for an unsigned result without the test t < u
detail_subtract_unsigned_nocheck(X, a, b) ==
    OkOf(X, CSub(Val(X, a), Val(X, b)))

\* detail::subtract, result unsigned
detail_subtract_unsigned(X, a, b) ==
    IF CLt(Val(X, a), Val(X, b)) THEN
        Err("overflow_error", "subtraction overflow")
    ELSE OkOf(X, CSub(Val(X, a), Val(X, b)))

\* detail::subtract, result signed
detail_subtract_signed(X, a, b) ==
    IF \/ (CGt(Val(X, b), Val(IntT, 0))
            /\ CLt(Val(X, a), CAdd(Val(X, Min(X)), Val(X, b))))
       \/ (CLt(Val(X, b), Val(IntT, 0))
            /\ CGt(Val(X, a), CAdd(Val(X, Max(X)), Val(X, b))))
    THEN Err("overflow_error", "subtraction overflow")
    ELSE OkOf(X, CSub(Val(X, a), Val(X, b)))

detail_subtract(X, A, a, B, b) ==
    IF X.signed THEN detail_subtract_signed(X, Conv(a, X), Conv(b, X))
    ELSE detail_subtract_unsigned(X, Conv(a, X), Conv(b, X))

subtract(X, A, a, B, b) ==
    LET rt == cast(X, A, a)
        ru == cast(X, B, b)
    IN IF ~no_exception(rt) THEN rt
       ELSE IF ~no_exception(ru) THEN ru
       ELSE detail_subtract(X, A, a, B, b)

-----------------------------------------------------------------------------
\* safe multiplication

\* result unsigned, intermediate of type uintmax_t
multiply_unsigned_widened(X, a, b) ==
    IF CGt(CMul(Val(UIntMaxT, a), Val(UIntMaxT, b)), Val(X, Max(X))) THEN
        Err("overflow_error", "multiplication overflow")
    ELSE OkOf(X, CMul(Val(X, a), Val(X, b)))

\* result unsigned, bound by division
multiply_unsigned_bounded(X, a, b) ==
    IF CGt(Val(X, b), Val(IntT, 0))
       /\ CGt(Val(X, a), CDiv(Val(X, Max(X)), Val(X, b)))
    THEN Err("overflow_error", "multiplication overflow")
    ELSE OkOf(X, CMul(Val(X, a), Val(X, b)))

\* result signed, intermediate of type intmax_t
multiply_signed_widened(X, a, b) ==
    IF CGt(CMul(Val(IntMaxT, a), Val(IntMaxT, b)), Val(IntMaxT, Max(X))) THEN
        Err("overflow_error", "multiplication overflow")
    ELSE IF CLt(CMul(Val(IntMaxT, a), Val(IntMaxT, b)), Val(IntMaxT, Min(X))) THEN
        Err("underflow_error", "multiplication underflow")
    ELSE OkOf(X, CMul(Val(X, a), Val(X, b)))

\* the bounded signed multiply with the bound of the quadrant t > 0, u <= 0
\* taken from max() instead of min()
multiply_signed_bounded_maxbound(X, a, b) ==
    IF CGt(Val(X, a), Val(IntT, 0)) THEN
        IF CGt(Val(X, b), Val(IntT, 0)) THEN
            IF CGt(Val(X, a), CDiv(Val(X, Max(X)), Val(X, b))) THEN
                Err("overflow_error", "multiplication overflow")
            ELSE OkOf(X, CMul(Val(X, a), Val(X, b)))
        ELSE
            IF CLt(Val(X, b), CDiv(Val(X, Max(X)), Val(X, a))) THEN
                Err("overflow_error", "multiplication overflow")
            ELSE OkOf(X, CMul(Val(X, a), Val(X, b)))
    ELSE
        IF CGt(Val(X, b), Val(IntT, 0)) THEN
            IF CLt(Val(X, a), CDiv(Val(X, Min(X)), Val(X, b))) THEN
                Err("overflow_error", "multiplication overflow")
            ELSE OkOf(X, CMul(Val(X, a), Val(X, b)))
        ELSE
            IF ~CEq(Val(X, a), Val(IntT, 0))
               /\ CLt(Val(X, b), CDiv(Val(X, Max(X)), Val(X, a)))
            THEN Err("overflow_error", "multiplication overflow")
            ELSE OkOf(X, CMul(Val(X, a), Val(X, b)))

\* result signed, bound by division in each quadrant
multiply_signed_bounded(X, a, b) ==
    IF CGt(Val(X, a), Val(IntT, 0)) THEN
        IF CGt(Val(X, b), Val(IntT, 0)) THEN
            IF CGt(Val(X, a), CDiv(Val(X, Max(X)), Val(X, b))) THEN
                Err("overflow_error", "multiplication overflow")
            ELSE OkOf(X, CMul(Val(X, a), Val(X, b)))
        ELSE
            IF CLt(Val(X, b), CDiv(Val(X, Min(X)), Val(X, a))) THEN
                Err("overflow_error", "multiplication overflow")
            ELSE OkOf(X, CMul(Val(X, a), Val(X, b)))
    ELSE
        IF CGt(Val(X, b), Val(IntT, 0)) THEN
            IF CLt(Val(X, a), CDiv(Val(X, Min(X)), Val(X, b))) THEN
                Err("overflow_error", "multiplication overflow")
            ELSE OkOf(X, CMul(Val(X, a), Val(X, b)))
        ELSE
            IF ~CEq(Val(X, a), Val(IntT, 0))
               /\ CLt(Val(X, b), CDiv(Val(X, Max(X)), Val(X, a)))
            THEN Err("overflow_error", "multiplication overflow")
            ELSE OkOf(X, CMul(Val(X, a), Val(X, b)))

\* the overload the enable_if conditions select for X
Widened(X) ==
    IF X.signed THEN X.size <= IntMaxT.size \div 2
    ELSE X.size <= UIntMaxT.size \div 2

detail_multiply(X, A, a, B, b) ==
    LET ca == Conv(a, X)
        cb == Conv(b, X)
    IN IF X.signed THEN
           IF Widened(X) THEN multiply_signed_widened(X, ca, cb)
           ELSE multiply_signed_bounded(X, ca, cb)
       ELSE
           IF Widened(X) THEN multiply_unsigned_widened(X, ca, cb)
           ELSE multiply_unsigned_bounded(X, ca, cb)

multiply(X, A, a, B, b) ==
    LET rt == cast(X, A, a)
        ru == cast(X, B, b)
    IN IF ~no_exception(rt) THEN rt
       ELSE IF ~no_exception(ru) THEN ru
       ELSE detail_multiply(X, A, a, B, b)

-----------------------------------------------------------------------------
\* The arithmetic sub-expressions that add, subtract and multiply evaluate,
\* in the order and under the short-circuits of their guards

\* an evaluated arithmetic sub-expression x k y
Expr(k, x, y) == [k |-> k, x |-> x, y |-> y]

\* the exact value of the sub-expression lies in the range of the type it is
\* computed in, and it is no division by zero
ExprDefined(e) ==
    LET C == ArithType(e.x, e.y)
        a == Conv(e.x.v, C)
        b == Conv(e.y.v, C)
    IN CASE e.k = "+" -> InRange(a + b, C)
         [] e.k = "-" -> InRange(a - b, C)
         [] e.k = "*" -> \/ a = 0
                         \/ b = 0
                         \/ (/\ Abs(a) <= (Max(C) + 1) \div Abs(b)
                             /\ InRange(a * b, C))
         [] e.k = "/" -> b # 0 /\ InRange(TruncDiv(a, b), C)

\* detail::add, result unsigned
add_unsigned_evaluated(X, a, b) ==
    {Expr("-", Val(X, Max(X)), Val(X, b))}
    \cup (IF no_exception(detail_add_unsigned(X, a, b))
          THEN {Expr("+", Val(X, a), Val(X, b))} ELSE {})

\* detail::add, result signed
add_signed_evaluated(X, a, b) ==
    LET pos == CGt(Val(X, b), Val(IntT, 0))
        first == pos /\ CGt(Val(X, a), CSub(Val(X, Max(X)), Val(X, b)))
        neg == ~first /\ CLt(Val(X, b), Val(IntT, 0))
    IN (IF pos THEN {Expr("-", Val(X, Max(X)), Val(X, b))} ELSE {})
       \cup (IF neg THEN {Expr("-", Val(X, Min(X)), Val(X, b))} ELSE {})
       \cup (IF no_exception(detail_add_signed(X, a, b))
             THEN {Expr("+", Val(X, a), Val(X, b))} ELSE {})

\* detail::subtract, result unsigned
subtract_unsigned_evaluated(X, a, b) ==
    IF no_exception(detail_subtract_unsigned(X, a, b))
    THEN {Expr("-", Val(X, a), Val(X, b))} ELSE {}

\* detail::subtract, result signed
subtract_signed_evaluated(X, a, b) ==
    LET pos == CGt(Val(X, b), Val(IntT, 0))
        first == pos /\ CLt(Val(X, a), CAdd(Val(X, Min(X)), Val(X, b)))
        neg == ~first /\ CLt(Val(X, b), Val(IntT, 0))
    IN (IF pos THEN {Expr("+", Val(X, Min(X)), Val(X, b))} ELSE {})
       \cup (IF neg THEN {Expr("+", Val(X, Max(X)), Val(X, b))} ELSE {})
       \cup (IF no_exception(detail_subtract_signed(X, a, b))
             THEN {Expr("-", Val(X, a), Val(X, b))} ELSE {})

\* detail::multiply, result unsigned, intermediate of type uintmax_t
multiply_unsigned_widened_evaluated(X, a, b) ==
    {Expr("*", Val(UIntMaxT, a), Val(UIntMaxT, b))}
    \cup (IF no_exception(multiply_unsigned_widened(X, a, b))
          THEN {Expr("*", Val(X, a), Val(X, b))} ELSE {})

\* detail::multiply, result unsigned, bound by division
multiply_unsigned_bounded_evaluated(X, a, b) ==
    (IF CGt(Val(X, b), Val(IntT, 0))
     THEN {Expr("/", Val(X, Max(X)), Val(X, b))} ELSE {})
    \cup (IF no_exception(multiply_unsigned_bounded(X, a, b))
          THEN {Expr("*", Val(X, a), Val(X, b))} ELSE {})

\* detail::multiply, result signed, intermediate of type intmax_t
multiply_signed_widened_evaluated(X, a, b) ==
    {Expr("*", Val(IntMaxT, a), Val(IntMaxT, b))}
    \cup (IF no_exception(multiply_signed_widened(X, a, b))
          THEN {Expr("*", Val(X, a), Val(X, b))} ELSE {})

\* the bounded signed multiply with max() / t evaluated before t != 0 is
\* tested
multiply_signed_bounded_evaluated_unguarded(X, a, b) ==
    (IF CGt(Val(X, a), Val(IntT, 0)) THEN
         IF CGt(Val(X, b), Val(IntT, 0))
         THEN {Expr("/", Val(X, Max(X)), Val(X, b))}
         ELSE {Expr("/", Val(X, Min(X)), Val(X, a))}
     ELSE
         IF CGt(Val(X, b), Val(IntT, 0))
         THEN {Expr("/", Val(X, Min(X)), Val(X, b))}
         ELSE {Expr("/", Val(X, Max(X)), Val(X, a))})
    \cup (IF no_exception(multiply_signed_bounded(X, a, b))
          THEN {Expr("*", Val(X, a), Val(X, b))} ELSE {})

\* detail::multiply, result signed, bound by division in each quadrant
multiply_signed_bounded_evaluated(X, a, b) ==
    (IF CGt(Val(X, a), Val(IntT, 0)) THEN
         IF CGt(Val(X, b), Val(IntT, 0))
         THEN {Expr("/", Val(X, Max(X)), Val(X, b))}
         ELSE {Expr("/", Val(X, Min(X)), Val(X, a))}
     ELSE
         IF CGt(Val(X, b), Val(IntT, 0))
         THEN {Expr("/", Val(X, Min(X)), Val(X, b))}
         ELSE IF ~CEq(Val(X, a), Val(IntT, 0))
              THEN {Expr("/", Val(X, Max(X)), Val(X, a))}
              ELSE {})
    \cup (IF no_exception(multiply_signed_bounded(X, a, b))
          THEN {Expr("*", Val(X, a), Val(X, b))} ELSE {})

\* the sub-expressions the operation name evaluates for operands that both
\* casts accept
evaluated(name, X, a, b) ==
    LET ca == Conv(a, X)
        cb == Conv(b, X)
    IN CASE name = "add" ->
                IF X.signed THEN add_signed_evaluated(X, ca, cb)
                ELSE add_unsigned_evaluated(X, ca, cb)
         [] name = "subtract" ->
                IF X.signed THEN subtract_signed_evaluated(X, ca, cb)
                ELSE subtract_unsigned_evaluated(X, ca, cb)
         [] name = "multiply" ->
                IF X.signed THEN
                    IF Widened(X) THEN multiply_signed_widened_evaluated(X, ca, cb)
                    ELSE multiply_signed_bounded_evaluated(X, ca, cb)
                ELSE
                    IF Widened(X) THEN multiply_unsigned_widened_evaluated(X, ca, cb)
                    ELSE multiply_unsigned_bounded_evaluated(X, ca, cb)

-----------------------------------------------------------------------------
\* safe division

\* detail::divide, result unsigned
detail_divide_unsigned(X, a, b) == OkOf(X, CDiv(Val(X, a), Val(X, b)))

\* detail::divide for a signed result without the test for min() / -1
detail_divide_signed_nocheck(X, a, b) ==
    OkOf(X, CDiv(Val(X, a), Val(X, b)))

\* detail::divide, result signed
detail_divide_signed(X, a, b) ==
    IF CEq(Val(X, b), Val(IntT, -1)) /\ CEq(Val(X, a), Val(X, Min(X))) THEN
        Err("domain_error", "result cannot be represented")
    ELSE OkOf(X, CDiv(Val(X, a), Val(X, b)))

detail_divide(X, a, b) ==
    IF X.signed THEN detail_divide_signed(X, a, b)
    ELSE detail_divide_unsigned(X, a, b)

\* divide with the operands cast before the divisor is tested
divide_cast_first(X, A, a, B, b) ==
    LET tx == cast(X, A, a)
        ux == cast(X, B, b)
    IN IF ~no_exception(tx) \/ ~no_exception(ux) THEN
           Err("overflow_error", "failure converting argument types")
       ELSE IF CEq(Val(B, b), Val(IntT, 0)) THEN
           Err("domain_error", "divide by zero")
       ELSE detail_divide(X, tx.r, ux.r)

divide(X, A, a, B, b) ==
    IF CEq(Val(B, b), Val(IntT, 0)) THEN
        Err("domain_error", "divide by zero")
    ELSE
        LET tx == cast(X, A, a)
            ux == cast(X, B, b)
        IN IF ~no_exception(tx) \/ ~no_exception(ux) THEN
               Err("overflow_error", "failure converting argument types")
           ELSE detail_divide(X, tx.r, ux.r)

\* detail_automatic::bits<A, B>()
bits(A, B) ==
    LET m == (IF Digits(A) >= Digits(B) THEN Digits(A) ELSE Digits(B)) + 1 + 1
        c == Digits(IntMaxT) + 1
    IN IF m <= c THEN m ELSE c

\* boost::int_t<n>::fast: the smallest signed native type of at least n bits
int_t(n) ==
    CHOOSE X \in NativeTypes :
        /\ X.signed
        /\ Bits(X) >= n
        /\ \A Y \in NativeTypes : (Y.signed /\ Bits(Y) >= n) => X.size <= Y.size

\* detail_automatic::divide, divisor unsigned
automatic_divide_unsigned(X, A, a, B, b) == OkOf(X, CDiv(Val(A, a), Val(B, b)))

\* detail_automatic::divide, divisor signed; the operands of / are the
\* checked_results of the casts converted to t_type: the value of one that
\* holds an exception is not defined
automatic_divide_signed(X, A, a, B, b) ==
    LET t_type == int_t(bits(A, B))
        ct == cast(t_type, A, a)
        cu == cast(t_type, B, b)
        q == CDiv(Val(t_type, ct.r), Val(t_type, cu.r))
    IN IF /\ Digits(A) = Digits(t_type)
          /\ CEq(Val(B, b), Val(IntT, -1))
          /\ CEq(Val(A, a), Val(A, Min(A)))
       THEN Err("domain_error", "result cannot be represented")
       ELSE OkOf(X, [q EXCEPT !.ub = @ \/ ~no_exception(ct) \/ ~no_exception(cu)])

divide_automatic(X, A, a, B, b) ==
    IF CEq(Val(B, b), Val(IntT, 0)) THEN
        Err("domain_error", "divide by zero")
    ELSE IF B.signed THEN automatic_divide_signed(X, A, a, B, b)
    ELSE automatic_divide_unsigned(X, A, a, B, b)

-----------------------------------------------------------------------------
\* safe modulus

\* detail::modulus, result unsigned
detail_modulus_unsigned(X, a, b) == OkOf(X, CMod(Val(X, a), Val(X, b)))

\* detail::modulus, result signed
detail_modulus_signed(X, a, b) ==
    IF CLt(Val(X, b), Val(IntT, 0)) /\ CEq(Val(X, a), Val(X, Min(X))) THEN
        Err("domain_error", "result cannot be represented")
    ELSE OkOf(X, CMod(Val(X, a), Val(X, b)))

detail_modulus(X, a, b) ==
    IF X.signed THEN detail_modulus_signed(X, a, b)
    ELSE detail_modulus_unsigned(X, a, b)

modulus(X, A, a, B, b) ==
    IF CEq(Val(IntT, 0), Val(B, b)) THEN
        Err("domain_error", "denominator is zero")
    ELSE
        LET rt == cast(X, A, a)
            ru == cast(X, B, b)
        IN IF ~no_exception(rt) THEN rt
           ELSE IF ~no_exception(ru) THEN ru
           ELSE detail_modulus(X, rt.r, ru.r)

-----------------------------------------------------------------------------
\* shift operations

\* v * 2^n modulo m
RECURSIVE ShlMod(_, _, _)
ShlMod(v, n, m) == IF n = 0 THEN v % m ELSE ShlMod((2 * v) % m, n - 1, m)

\* built-in << and >>: the type is that of the promoted left operand, the
\* behaviour is undefined for a count that is negative or not less than its
\* width, and for << of a signed value that is negative or overflows
CShl(x, y) ==
    LET C == Promote(x.ty)
        a == Conv(x.v, C)
        n == Conv(y.v, Promote(y.ty))
    IN IF n < 0 \/ n >= Bits(C) THEN [ty |-> C, v |-> 0, ub |-> TRUE]
       ELSE [ty |-> C,
             v |-> Conv(ShlMod(a % Pow2(Bits(C)), n, Pow2(Bits(C))), C),
             ub |-> x.ub \/ y.ub
                    \/ (C.signed /\ (a < 0 \/ a > Max(C) \div Pow2(n)))]
CShr(x, y) ==
    LET C == Promote(x.ty)
        a == Conv(x.v, C)
        n == Conv(y.v, Promote(y.ty))
    IN IF n < 0 \/ n >= Bits(C) THEN [ty |-> C, v |-> 0, ub |-> TRUE]
       ELSE [ty |-> C, v |-> a \div Pow2(n), ub |-> x.ub \/ y.ub]

\* comparison of a checked_result that holds a value with an integer
result_lt(cr, n) == cr.r < n
result_gt(cr, n) == cr.r > n

\* detail::check_shift<X>(a, b)
check_shift(X, A, a, B, b) ==
    LET ru == cast(X, B, b)
    IN IF ~no_exception(ru) THEN ru
       ELSE IF result_lt(ru, 0) THEN
           Err("domain_error", "shifting negative amount is undefined behavior")
       ELSE IF result_gt(ru, Digits(A)) THEN
           Err("domain_error",
               "shifting more bits than available is undefined behavior")
       ELSE Ok(0)

\* the primitive shift of left_shift and right_shift: the type of its
\* (promoted) left operand static_cast<R>(r) and its bit count t
shift_operand_type(X) == Promote(X)
shift_count(A, a) == Conv(a, Promote(A))

left_shift(X, A, a, B, b) ==
    LET r == check_shift(X, A, a, B, b)
    IN IF ~no_exception(r) THEN r
       ELSE OkOf(X, CShl(Val(X, r.r), Val(A, a)))

right_shift(X, A, a, B, b) ==
    LET r == check_shift(X, A, a, B, b)
    IN IF ~no_exception(r) THEN r
       ELSE OkOf(X, CShr(Val(X, r.r), Val(A, a)))

-----------------------------------------------------------------------------
\* bitwise operations

\* the bits of a | b, a & b, a ^ b for 0 <= a, b < 2^n
RECURSIVE BitOp(_, _, _, _)
BitOp(f, a, b, n) ==
    IF n = 0 THEN 0
    ELSE LET x == a % 2
             y == b % 2
             z == CASE f = "or" -> IF x + y > 0 THEN 1 ELSE 0
                    [] f = "and" -> x * y
                    [] f = "xor" -> (x + y) % 2
         IN z + 2 * BitOp(f, a \div 2, b \div 2, n - 1)

\* built-in |, & and ^
CBit(f, x, y) ==
    LET C == ArithType(x, y)
        m == Pow2(Bits(C))
    IN [ty |-> C, v |-> Conv(BitOp(f, x.v % m, y.v % m, Bits(C)), C),
        ub |-> x.ub \/ y.ub]

bitwise(f, X, A, a, B, b) ==
    LET rt == cast(X, A, a)
        ru == cast(X, B, b)
    IN IF ~no_exception(rt) THEN rt
       ELSE IF ~no_exception(ru) THEN ru
       ELSE OkOf(X, CBit(f, Val(X, ru.r), Val(X, rt.r)))

bitwise_or(X, A, a, B, b) == bitwise("or", X, A, a, B, b)
bitwise_and(X, A, a, B, b) == bitwise("and", X, A, a, B, b)
bitwise_xor(X, A, a, B, b) == bitwise("xor", X, A, a, B, b)

-----------------------------------------------------------------------------
\* Inputs

\* the bit widths of the instantiated types and their predecessors: the
\* shift counts at the boundary
Widths == UNION {{Bits(X) - 1, Bits(X)} : X \in Types}

\* the values of type X the operations are applied to
Values(X) ==
    {v \in {Min(X), Min(X) + 1, Min(X) \div 2, -3, -2, -1, 0, 1, 2, 3,
            Max(X) \div 2, Max(X) - 1, Max(X)} \cup Widths : InRange(v, X)}

NoResult == [e |-> "none", r |-> 0, msg |-> "", ub |-> FALSE]

TypeOK ==
    /\ R \in Types /\ T \in Types /\ U \in Types
    /\ t \in Values(T) /\ u \in Values(U)
    /\ pc \in {"call", "done"}

Init ==
    /\ R \in Types
    /\ T \in Types
    /\ U \in Types
    /\ t \in Values(T)
    /\ u \in Values(U)
    /\ op = "none"
    /\ pc = "call"
    /\ result = NoResult

\* an operation returns: undefined behaviour met while computing the value
\* leaves the value to the build
Return(name, cr) ==
    /\ pc = "call"
    /\ pc' = "done"
    /\ op' = name
    /\ IF cr.ub
         THEN \E v \in Values(R) : result' = [cr EXCEPT !.r = v]
         ELSE result' = cr
    /\ UNCHANGED <<R, T, U, t, u>>

Cast == Return("cast", cast(R, T, t))
Add == Return("add", add(R, T, t, U, u))
Subtract == Return("subtract", subtract(R, T, t, U, u))
Multiply == Return("multiply", multiply(R, T, t, U, u))
Divide == Return("divide", divide(R, T, t, U, u))
DivideAutomatic == Return("divide_automatic", divide_automatic(R, T, t, U, u))
Modulus == Return("modulus", modulus(R, T, t, U, u))
LeftShift == Return("left_shift", left_shift(R, T, t, U, u))
RightShift == Return("right_shift", right_shift(R, T, t, U, u))

\* the static_assert of the bitwise operations admits a signed T only
BitwiseOr == T.signed /\ Return("bitwise_or", bitwise_or(R, T, t, U, u))
BitwiseAnd == T.signed /\ Return("bitwise_and", bitwise_and(R, T, t, U, u))
BitwiseXor == T.signed /\ Return("bitwise_xor", bitwise_xor(R, T, t, U, u))

Next ==
    \/ Cast
    \/ Add
    \/ Subtract
    \/ Multiply
    \/ Divide
    \/ DivideAutomatic
    \/ Modulus
    \/ LeftShift
    \/ RightShift
    \/ BitwiseOr
    \/ BitwiseAnd
    \/ BitwiseXor

Spec == Init /\ [][Next]_vars

-----------------------------------------------------------------------------
\* Properties

Done(name) == pc = "done" /\ op = name

\* both operands are representable in R
Representable == InRange(t, R) /\ InRange(u, R)

\* largest magnitude the products of the properties may reach
Huge == 2 ^ 30

\* the exact product a * b lies in the range of X
ProductInRange(a, b, X) ==
    \/ a = 0
    \/ b = 0
    \/ (Abs(a) <= Huge \div Abs(b) /\ InRange(a * b, X))

\* q is the quotient of a by b truncated toward zero
IsQuotient(q, a, b) ==
    /\ Abs(q) = Abs(a) \div Abs(b)
    /\ q > 0 => ((a < 0) = (b < 0))
    /\ q < 0 => ((a < 0) # (b < 0))

\* C1: cast<R>(t) returns Ok(t) if and only if t lies in [R::min, R::max],
\* and fails with range_error otherwise
CastCorrect ==
    Done("cast") =>
        IF InRange(t, R) THEN result = Ok(t)
        ELSE result.e = "range_error" /\ ~result.ub

\* a negative value was cast to an unsigned type and rejected
CastWitness ==
    /\ Done("cast")
    /\ ~R.signed /\ T.signed /\ t < 0
    /\ result.e = "range_error"

\* C2: with both operands representable in R, add and subtract return the
\* exact result if and only if it lies in [R::min, R::max], and fail with
\* overflow_error otherwise (also below R::min)
AddSubtractCorrect ==
    (pc = "done" /\ op \in {"add", "subtract"} /\ Representable) =>
        LET e == IF op = "add" THEN t + u ELSE t - u
        IN IF InRange(e, R) THEN result = Ok(e)
           ELSE result.e = "overflow_error" /\ ~result.ub

\* an unsigned subtraction whose exact result is negative was rejected
AddSubtractWitness ==
    /\ Done("subtract")
    /\ ~R.signed /\ Representable /\ t < u
    /\ result.e = "overflow_error"

\* C3: with both operands representable in R, multiply returns the exact
\* product if and only if it lies in [R::min, R::max], and fails otherwise,
\* on the widened path and on the bounded-division path
MultiplyCorrect ==
    (Done("multiply") /\ Representable) =>
        IF ProductInRange(t, u, R) THEN result = Ok(t * u)
        ELSE result.e \in {"overflow_error", "underflow_error"} /\ ~result.ub

\* the bounded-division path rejected a product below R::min with t > 0
MultiplyWitness ==
    /\ Done("multiply")
    /\ R.signed /\ ~Widened(R) /\ Representable
    /\ t > 0 /\ u < -1 /\ ~ProductInRange(t, u, R)
    /\ result.e = "overflow_error"

\* C4: the widened-intermediate and the bounded-division strategy classify
\* every operand pair identically: the same value, or a failure of the same
\* kind
MultiplyPathsAgree ==
    (Done("multiply") /\ Representable /\ Widened(R)) =>
        LET w == IF R.signed THEN multiply_signed_widened(R, t, u)
                 ELSE multiply_unsigned_widened(R, t, u)
            b == IF R.signed THEN multiply_signed_bounded(R, t, u)
                 ELSE multiply_unsigned_bounded(R, t, u)
        IN w.e = b.e /\ w.r = b.r

\* C5: divide, divide_automatic and modulus fail with domain_error for a
\* zero divisor, whatever t is and whether or not it is representable in R
ZeroDivisor ==
    (pc = "done" /\ op \in {"divide", "divide_automatic", "modulus"} /\ u = 0)
        => result.e = "domain_error"

\* divide by zero of a dividend that R cannot represent
ZeroDivisorWitness ==
    /\ Done("divide")
    /\ u = 0 /\ ~InRange(t, R)
    /\ result.e = "domain_error"

\* C6: with u != 0, divide returns the failure of the operand cast that
\* failed (range_error), t's cast first, as modulus does
DividePropagatesCast ==
    (Done("divide") /\ u # 0 /\ ~Representable) =>
        /\ result.e = "range_error"
        /\ result = IF ~InRange(t, R) THEN cast(R, T, t) ELSE cast(R, U, u)

\* C7: with u != 0 and both operands representable in R, divide fails, with
\* domain_error, exactly when R is signed, u == -1 and t == R::min, and
\* returns the quotient truncated toward zero otherwise
DivideCorrect ==
    (Done("divide") /\ u # 0 /\ Representable) =>
        IF R.signed /\ u = -1 /\ t = Min(R) THEN
            result.e = "domain_error"
        ELSE no_exception(result) /\ ~result.ub /\ IsQuotient(result.r, t, u)

\* R::min divided by -2 gave the positive quotient
DivideWitness ==
    /\ Done("divide")
    /\ R.signed /\ t = Min(R) /\ u = -2
    /\ result = Ok(Max(R) \div 2 + 1)

\* C8: with signed R, u != 0 and both operands representable in R, modulus
\* fails with domain_error if u == -1 and t == R::min and returns the
\* remainder of truncated division for every other divisor
ModulusSigned ==
    (Done("modulus") /\ R.signed /\ u # 0 /\ Representable) =>
        IF u = -1 /\ t = Min(R) THEN result.e = "domain_error"
        ELSE /\ no_exception(result)
             /\ Abs(result.r) = Abs(t) % Abs(u)
             /\ result.r # 0 => ((result.r < 0) = (t < 0))

\* C9: left_shift and right_shift fail with domain_error whenever the amount
\* is negative or at or beyond the bit width of the shifted operand, and do
\* not fail for an unsigned operand and result of the same type and the
\* amount width - 1
ShiftBounds ==
    (pc = "done" /\ op \in {"left_shift", "right_shift"}) =>
        /\ (u < 0 \/ u >= Bits(T)) => result.e = "domain_error"
        /\ (~T.signed /\ R = T /\ u = Bits(T) - 1) => no_exception(result)

\* C10: when the amount passes the check, left_shift returns the value
\* shifted left by amount bits and right_shift the value shifted right by
\* amount bits
ShiftValue ==
    (/\ pc = "done"
     /\ no_exception(check_shift(R, T, t, U, u))
     /\ u < Bits(T) /\ t >= 0) =>
        /\ (op = "left_shift" /\ t <= Max(R) \div Pow2(u)) =>
               result = Ok(t * Pow2(u))
        /\ (op = "right_shift" /\ InRange(t, R)) =>
               result = Ok(t \div Pow2(u))

\* C11: with u != 0, divide_automatic fails with domain_error when
\* u == -1, t == T::min and the intermediate is as wide as T, and returns the
\* exact quotient t / u for every other operand pair, for every combination
\* of signed and unsigned T and U (stated for T signed in the first case and
\* for a quotient that R represents in the second)
AutomaticDivideExact ==
    (Done("divide_automatic") /\ u # 0) =>
        IF u = -1 /\ t = Min(T) /\ Bits(int_t(bits(T, U))) = Bits(T) THEN
            T.signed => result.e = "domain_error"
        ELSE InRange(TruncDiv(t, u), R) =>
                 /\ no_exception(result)
                 /\ ~result.ub
                 /\ IsQuotient(result.r, t, u)

\* R represents every value of both operand types
AutomaticR ==
    /\ InRange(Min(T), R) /\ InRange(Max(T), R)
    /\ InRange(Min(U), R) /\ InRange(Max(U), R)

\* C12: with R wide enough to represent both operands, modulus reports an
\* error if and only if the divisor is zero
ModulusAutomaticTable ==
    (Done("modulus") /\ AutomaticR) => (~no_exception(result) <=> u = 0)

\* the operations that cast t, then u, and return the first failure
CastFirstOps ==
    {"add", "subtract", "multiply", "modulus",
     "bitwise_or", "bitwise_and", "bitwise_xor"}

\* C13: in add, subtract, multiply, modulus (u != 0) and the bitwise
\* operations, a t that R cannot represent makes the result exactly the
\* failure of cast<R>(t) whatever u is, otherwise a u that R cannot represent
\* makes it exactly the failure of cast<R>(u)
FirstCastFailure ==
    (pc = "done" /\ op \in CastFirstOps /\ (op = "modulus" => u # 0)) =>
        /\ ~InRange(t, R) =>
               result.e = "range_error" /\ result = cast(R, T, t)
        /\ (InRange(t, R) /\ ~InRange(u, R)) =>
               result.e = "range_error" /\ result = cast(R, U, u)

\* add with two failing casts of different messages returned that of t
FirstCastFailureWitness ==
    /\ Done("add")
    /\ ~InRange(t, R) /\ ~InRange(u, R)
    /\ cast(R, T, t).msg # cast(R, U, u).msg
    /\ result = cast(R, T, t)

\* C14: in add, subtract and multiply, for operands representable in R, no
\* sub-expression of the guards or of the final computation is evaluated
\* whose exact value lies outside the range of the type it is computed in,
\* and no division by zero or of R::min by -1
CheckBeforeCompute ==
    (pc = "done" /\ op \in {"add", "subtract", "multiply"} /\ Representable) =>
        /\ \A e \in evaluated(op, R, t, u) : ExprDefined(e)
        /\ ~result.ub

\* the bounded signed multiply of 0 by a negative u evaluated the product
\* and no division
CheckBeforeComputeWitness ==
    /\ Done("multiply")
    /\ R.signed /\ ~Widened(R) /\ Representable
    /\ t = 0 /\ u < 0
    /\ evaluated(op, R, t, u) = {Expr("*", Val(R, 0), Val(R, u))}
    /\ result = Ok(0)

\* C15: whenever left_shift or right_shift executes the primitive shift, its
\* bit count lies in [0, bit width of the shifted operand)
ShiftCountValidated ==
    (/\ pc = "done"
     /\ op \in {"left_shift", "right_shift"}
     /\ no_exception(check_shift(R, T, t, U, u))) =>
        /\ 0 <= shift_count(T, t)
        /\ shift_count(T, t) < Bits(shift_operand_type(R))
        /\ ~result.ub

====
